---- MODULE Spec2Model ----
(***************************************************************************)
(* Flux systematics and table loading of pisa/stages/flux/honda.py and     *)
(* mceq_barr.py, and extract_trials and the Asimov significances of        *)
(* pisa/analysis/hypo_testing_injparamscan_postprocess.py.                 *)
(*                                                                         *)
(* Floating-point numbers are modelled as exact fractions <<n, d>> in      *)
(* lowest terms with d >= 0.  d = 0 holds the three non-finite values      *)
(* numpy produces instead of raising: <<1,0>> = +inf, <<-1,0>> = -inf and   *)
(* <<0,0>> = nan.  Rounding and the sign of zero are not modelled.         *)
(***************************************************************************)
EXTENDS Integers, Sequences, FiniteSets, TLC

(***************************************************************************)
(* Arithmetic                                                              *)
(***************************************************************************)
Abs(n) == IF n < 0 THEN -n ELSE n

Sign(n) == IF n < 0 THEN -1 ELSE IF n > 0 THEN 1 ELSE 0

RECURSIVE Gcd(_, _)
Gcd(a, b) == IF b = 0 THEN a ELSE Gcd(b, a % b)

\* fraction n/d brought to lowest terms with a non-negative denominator
Norm(n, d) ==
    IF d = 0 THEN <<Sign(n), 0>>
    ELSE LET g == Gcd(Abs(n), Abs(d))
             s == Sign(d)
         IN  <<(s * n) \div g, (s * d) \div g>>

Frac(n, d) == Norm(n, d)
FromInt(n) == <<n, 1>>
Zero == <<0, 1>>
One == <<1, 1>>
NaN == <<0, 0>>

IsFinite(x) == x[2] # 0
IsNeg(x) == x[1] < 0
IsPos(x) == x[1] > 0

\* x + y; inf + inf = inf, inf + (-inf) = nan, nan + y = nan
\* (over the least common denominator, to keep the intermediate products small)
Add(x, y) ==
    IF x[2] = 0 /\ y[2] = 0
    THEN (IF x = y THEN x ELSE NaN)
    ELSE IF x[2] = 0 THEN x
    ELSE IF y[2] = 0 THEN y
    ELSE LET g == Gcd(x[2], y[2])
         IN  Norm(x[1] * (y[2] \div g) + y[1] * (x[2] \div g),
                  (x[2] \div g) * y[2])

\* x * y; inf * 0 = nan (common factors are cancelled before multiplying)
Mul(x, y) ==
    IF x[2] = 0 \/ y[2] = 0
    THEN <<Sign(x[1]) * Sign(y[1]), 0>>
    ELSE LET g1 == Gcd(Abs(x[1]), y[2])
             g2 == Gcd(Abs(y[1]), x[2])
         IN  <<(x[1] \div g1) * (y[1] \div g2), (x[2] \div g2) * (y[2] \div g1)>>

\* 1 / x; 1 / 0 = inf, 1 / inf = 0, 1 / nan = nan
Recip(x) == IF x[1] < 0 THEN <<-x[2], -x[1]>> ELSE <<x[2], x[1]>>

\* x / y; x / 0 = +-inf for x # 0, 0 / 0 = nan (numpy warns, it does not raise)
Div(x, y) == Mul(x, Recip(y))

Neg(x) == <<-x[1], x[2]>>
Sub(x, y) == Add(x, Neg(y))

\* x < y; false when either side is nan
Less(x, y) == x[1] * y[2] < y[1] * x[2]

\* IEEE equality: nan equals nothing, itself included
EqF(x, y) == x = y /\ x # NaN

\* np.power(x, k) for an integer exponent k
RECURSIVE Pow(_, _)
Pow(x, k) ==
    IF k = 0 THEN One
    ELSE IF k < 0 THEN Recip(Pow(x, -k))
    ELSE Mul(x, Pow(x, k - 1))

(***************************************************************************)
(* honda: binning, maps and map sets                                       *)
(***************************************************************************)
\* largest energy-profile level of a map handed to apply_ratio_scale on its own
MaxFlux == 2

\* largest |atm_delta_index| (integer exponents keep np.power exact)
MaxIndex == 1

primaries == <<"numu", "numubar", "nue", "nuebar">>
Primaries == {primaries[i] : i \in 1..Len(primaries)}

\* output_binning: coszen first, energy second, the layout compute_2D_outputs
\* produces for these names (its return_table is (cz, E) and is not transposed)
names == <<"true_coszen", "true_energy">>

\* all_binning.true_energy.weighted_centers.magnitude, in GeV
evals == <<FromInt(1), FromInt(2)>>

\* all_binning.true_coszen.weighted_centers.magnitude
czvals == <<Frac(-1, 2), Frac(1, 2)>>

EIdx == 1..Len(evals)
CzIdx == 1..Len(czvals)
Bins == CzIdx \X EIdx

RECURSIVE SumTo(_, _)
SumTo(f, n) == IF n = 0 THEN Zero ELSE Add(SumTo(f, n - 1), f[n])

\* hist.sum(): the sum of a (cz, E) histogram over all its bins
HistSum(hist) ==
    SumTo([c \in CzIdx |-> SumTo([e \in EIdx |-> hist[<<c, e>>]], Len(evals))],
          Len(czvals))

\* Map + Map, Map / Map, Map * Map, Map * scalar, scalar + Map: bin by bin
MapAdd(m1, m2) == [b \in Bins |-> Add(m1[b], m2[b])]
MapDiv(m1, m2) == [b \in Bins |-> Div(m1[b], m2[b])]
MapMul(m1, m2) == [b \in Bins |-> Mul(m1[b], m2[b])]
MapScale(k, m) == [b \in Bins |-> Mul(k, m[b])]
MapShift(k, m) == [b \in Bins |-> Add(k, m[b])]

\* apply_ratio_scale with ratio_scale left out of the numerator map
apply_ratio_scale_unscaled(m1, m2, ratio) ==
    LET orig_map_sum == MapAdd(m1, m2)
        orig_map_ratio == MapDiv(m1, m2)
        scaled_map2 ==
            MapDiv(orig_map_sum, MapShift(One, MapScale(ratio, orig_map_ratio)))
        scaled_map1 == MapMul(orig_map_ratio, scaled_map2)
    IN  <<scaled_map1, scaled_map2>>

\* apply_ratio_scale with ratio_scale left out of the denominator map
apply_ratio_scale_unnormed(m1, m2, ratio) ==
    LET orig_map_sum == MapAdd(m1, m2)
        orig_map_ratio == MapDiv(m1, m2)
        scaled_map2 == MapDiv(orig_map_sum, MapShift(One, orig_map_ratio))
        scaled_map1 == MapMul(MapScale(ratio, orig_map_ratio), scaled_map2)
    IN  <<scaled_map1, scaled_map2>>

\* apply_ratio_scale(map1, map2, ratio_scale): <<scaled_map1, scaled_map2>>
apply_ratio_scale(m1, m2, ratio) ==
    LET orig_map_sum == MapAdd(m1, m2)
        orig_map_ratio == MapDiv(m1, m2)
        scaled_map2 ==
            MapDiv(orig_map_sum, MapShift(One, MapScale(ratio, orig_map_ratio)))
        scaled_map1 == MapMul(MapScale(ratio, orig_map_ratio), scaled_map2)
    IN  <<scaled_map1, scaled_map2>>

\* apply_nue_numu_ratio(flux_maps) with params['nue_numu_ratio'] = ratio
apply_nue_numu_ratio(flux_maps, ratio) ==
    LET nu == apply_ratio_scale(flux_maps["nue"], flux_maps["numu"], ratio)
        nubar == apply_ratio_scale(flux_maps["nuebar"], flux_maps["numubar"], ratio)
    IN  [numu |-> nu[2], numubar |-> nubar[2], nue |-> nu[1], nuebar |-> nubar[1]]

\* apply_nu_nubar_ratio scaling the neutrino maps and leaving the
\* antineutrino maps as they were
apply_nu_nubar_ratio_nu_only(flux_maps, ratio) ==
    [numu |-> MapScale(ratio, flux_maps["numu"]), numubar |-> flux_maps["numubar"],
     nue |-> MapScale(ratio, flux_maps["nue"]), nuebar |-> flux_maps["nuebar"]]

\* apply_nu_nubar_ratio(flux_maps) with params['nu_nubar_ratio'] = ratio
apply_nu_nubar_ratio(flux_maps, ratio) ==
    LET e == apply_ratio_scale(flux_maps["nue"], flux_maps["nuebar"], ratio)
        mu == apply_ratio_scale(flux_maps["numu"], flux_maps["numubar"], ratio)
    IN  [numu |-> mu[1], numubar |-> mu[2], nue |-> e[1], nuebar |-> e[2]]

\* the energy-dependent factor of apply_delta_index, pivoted about the
\* median energy evals[len(evals)/2] (Python 2 integer division, 0-based)
delta_scale(index) ==
    LET median_energy == evals[(Len(evals) \div 2) + 1]
    IN  [e \in EIdx |-> Pow(Div(evals[e], median_energy), index)]

\* delta_flavour without the renormalisation
delta_flavour_unnormed(flux_map, index) ==
    LET scale == delta_scale(index)
    IN  [b \in Bins |-> Mul(flux_map[b], scale[b[2]])]

\* one flavour of apply_delta_index: scale along the energy axis, renormalise
delta_flavour(flux_map, index) ==
    LET scale == delta_scale(index)
        scaled_flux ==
            IF names[1] = "energy"
            THEN [b \in Bins |-> Mul(flux_map[b], scale[b[1]])]
            ELSE [b \in Bins |-> Mul(flux_map[b], scale[b[2]])]
    IN  MapScale(Div(HistSum(flux_map), HistSum(scaled_flux)), scaled_flux)

\* apply_delta_index looping over all four flavours
apply_delta_index_all(flux_maps, index) ==
    [p \in Primaries |-> delta_flavour(flux_maps[p], index)]

\* apply_delta_index(flux_maps) with params['atm_delta_index'] = index
apply_delta_index(flux_maps, index) ==
    [numu |-> delta_flavour(flux_maps["numu"], index),
     numubar |-> delta_flavour(flux_maps["numubar"], index),
     nue |-> flux_maps["nue"],
     nuebar |-> flux_maps["nuebar"]]

\* the systematics part of _compute_outputs on the interpolated output_maps
after_ratios(output_maps, p) ==
    LET s1 == IF p.nue_numu_ratio # One
              THEN apply_nue_numu_ratio(output_maps, p.nue_numu_ratio)
              ELSE output_maps
    IN  IF p.nu_nubar_ratio # One
        THEN apply_nu_nubar_ratio(s1, p.nu_nubar_ratio)
        ELSE s1

compute_outputs(output_maps, p) ==
    IF p.atm_delta_index # 0
    THEN apply_delta_index(after_ratios(output_maps, p), p.atm_delta_index)
    ELSE after_ratios(output_maps, p)


(***************************************************************************)
(* mceq_barr                                                               *)
(***************************************************************************)
\* Barr params take the values k/2 for k in -2 .. MaxBarr
MaxBarr == 1

\* antipion_production with the ratio multiplied instead of divided
antipion_production_times(barr_var, pion_ratio) ==
    Sub(Mul(Add(One, barr_var), Add(One, pion_ratio)), One)

\* antipion_production(barr_var, pion_ratio)
antipion_production(barr_var, pion_ratio) ==
    Sub(Div(Add(One, barr_var), Add(One, pion_ratio)), One)

pion_names == <<"a", "b", "c", "d", "e", "f", "g", "h", "i">>
kaon_names == <<"w", "x", "y", "z">>
barr_param_names == pion_names \o kaon_names
barr_param_signs == <<"+", "-">>

\* gradient_param_names: [n + s for n in barr_param_names for s in signs];
\* the name "a+" is written <<"a", "+">>
gradient_param_names ==
    [k \in 1..(2 * Len(barr_param_names)) |->
        <<barr_param_names[(k + 1) \div 2], barr_param_signs[2 - (k % 2)]>>]

GradIdx == 1..Len(gradient_param_names)

\* gradient_param_indices: name -> position (counted from 1 here)
gradient_param_indices ==
    [n \in {gradient_param_names[k] : k \in GradIdx} |->
        CHOOSE k \in GradIdx : gradient_param_names[k] = n]

\* the stage params holding the Barr values, by Barr letter
Pi_param ==
    [a |-> "barr_a_Pi", b |-> "barr_b_Pi", c |-> "barr_c_Pi", d |-> "barr_d_Pi",
     e |-> "barr_e_Pi", f |-> "barr_f_Pi", g |-> "barr_g_Pi", h |-> "barr_h_Pi",
     i |-> "barr_i_Pi"]
K_param ==
    [w |-> "barr_w_K", x |-> "barr_x_K", y |-> "barr_y_K", z |-> "barr_z_K"]
antiK_param ==
    [w |-> "barr_w_antiK", x |-> "barr_x_antiK", y |-> "barr_y_antiK",
     z |-> "barr_z_antiK"]

SeqRange(q) == {q[k] : k \in 1..Len(q)}
PionSet == SeqRange(pion_names)
KaonSet == SeqRange(kaon_names)

barr_value_params ==
    {Pi_param[n] : n \in PionSet} \cup {K_param[n] : n \in KaonSet}
        \cup {antiK_param[n] : n \in KaonSet}

expected_params ==
    {"pion_ratio", "delta_index", "energy_pivot"} \cup barr_value_params

\* gradient_params_mapping[n] of compute_function for the param values p
gradient_params_mapping(p, n) ==
    IF n[1] \in PionSet
    THEN IF n[2] = "+"
         THEN p[Pi_param[n[1]]]
         ELSE antipion_production(p[Pi_param[n[1]]], p["pion_ratio"])
    ELSE IF n[2] = "+"
         THEN p[K_param[n[1]]]
         ELSE p[antiK_param[n[1]]]

\* the loop of compute_function over gradient_param_indices.items(), up to
\* the k-th item: gradient_params[idx] = gradient_params_mapping[name]
RECURSIVE populate_to(_, _)
populate_to(p, k) ==
    IF k = 0 THEN <<>>
    ELSE Append(populate_to(p, k - 1),
                gradient_params_mapping(p, gradient_param_names[k]))

\* self.gradient_params once compute_function has populated it
populate_gradient_params(p) == populate_to(p, Len(gradient_param_names))

\* spectral_index_scale(true_energy, energy_pivot, delta_index)
spectral_index_scale(true_energy, energy_pivot, delta_index) ==
    Pow(Div(true_energy, energy_pivot), delta_index)

\* np.dot(gradients, gradient_params) for one flavour
RECURSIVE DotTo(_, _, _)
DotTo(g, gp, n) ==
    IF n = 0 THEN Zero ELSE Add(DotTo(g, gp, n - 1), Mul(g[n], gp[n]))

Flavs == 1..2

\* apply_sys_kernel with the spectral index scaling the gradient terms too
apply_sys_kernel_scale_all(true_energy, delta_index, energy_pivot, nu_flux_nominal, gradients, gradient_params) ==
    [f \in Flavs |->
        LET result ==
                Mul(Add(nu_flux_nominal[f],
                        DotTo(gradients[f], gradient_params, Len(gradient_params))),
                    spectral_index_scale(true_energy, energy_pivot, delta_index))
        IN  IF Less(result, Zero) THEN Zero ELSE result]

\* apply_sys_kernel without the check for negative results
apply_sys_kernel_unclipped(true_energy, delta_index, energy_pivot, nu_flux_nominal, gradients, gradient_params) ==
    [f \in Flavs |->
        Add(Mul(nu_flux_nominal[f],
                spectral_index_scale(true_energy, energy_pivot, delta_index)),
            DotTo(gradients[f], gradient_params, Len(gradient_params)))]

\* apply_sys_kernel for one event: the value written to out
apply_sys_kernel(true_energy, delta_index, energy_pivot, nu_flux_nominal, gradients, gradient_params) ==
    [f \in Flavs |->
        LET scaled_nominal ==
                Mul(nu_flux_nominal[f],
                    spectral_index_scale(true_energy, energy_pivot, delta_index))
            result ==
                Add(scaled_nominal,
                    DotTo(gradients[f], gradient_params, Len(gradient_params)))
        IN  IF Less(result, Zero) THEN Zero ELSE result]


(***************************************************************************)
(* extract_trials: screening of the log directory                          *)
(***************************************************************************)
\* most entries of the log directory
MaxEntries == 3

\* A file name is a sequence of tokens: "toy" and "_" are the separators
\* extract_trials splits on, ".pckl" and "Plots" the substrings it looks for,
\* every other token a run of characters containing none of the four.

\* seq.split(sep): the pieces between the separators, empty pieces included
RECURSIVE SplitFrom(_, _, _, _)
SplitFrom(name, sep, k, piece) ==
    IF k > Len(name) THEN <<piece>>
    ELSE IF name[k] = sep
         THEN <<piece>> \o SplitFrom(name, sep, k + 1, <<>>)
         ELSE SplitFrom(name, sep, k + 1, Append(piece, name[k]))

Split(name, sep) == SplitFrom(name, sep, 1, <<>>)

\* sub in name
Contains(name, sub) == \E k \in 1..Len(name) : name[k] = sub

\* '.pckl' not in folder and 'Plots' not in folder
IsOutputFolder(folder) == ~Contains(folder, ".pckl") /\ ~Contains(folder, "Plots")

\* folder.split('toy')[1].split('_') exists and has the items [1] and [2]
Parses(folder) ==
    /\ Len(Split(folder, "toy")) >= 2
    /\ Len(Split(Split(folder, "toy")[2], "_")) >= 3

\* folder.split('toy')[1].split('_')[1]
toy_name(folder) == Split(Split(folder, "toy")[2], "_")[2]

\* folder.split('toy')[1].split('_')[2]
scan_variable(folder) == Split(Split(folder, "toy")[2], "_")[3]

RECURSIVE Filter(_, _)
Filter(content, k) ==
    IF k = 0 THEN <<>>
    ELSE IF IsOutputFolder(content[k])
         THEN Append(Filter(content, k - 1), content[k])
         ELSE Filter(content, k - 1)

\* np.alltrue(values == values[0])
AllSameAsFirst(values) == \A k \in 1..Len(values) : values[k] = values[1]

\* the screening with the check of the scanned variable left out
screen_logdir_truth_only(content) ==
    LET folders == Filter(content, Len(content))
        toy_names == [k \in 1..Len(folders) |-> toy_name(folders[k])]
    IN  IF \E k \in 1..Len(folders) : ~Parses(folders[k]) THEN "IndexError"
        ELSE IF Len(folders) = 0 THEN "IndexError"
        ELSE IF ~AllSameAsFirst(toy_names) THEN "ValueError: truth"
        ELSE "proceeds"

\* extract_trials up to its two uniformity checks: the exception it raises
\* there, or "proceeds"
screen_logdir(content) ==
    LET folders == Filter(content, Len(content))
        toy_names == [k \in 1..Len(folders) |-> toy_name(folders[k])]
        scan_variables == [k \in 1..Len(folders) |-> scan_variable(folders[k])]
    IN  IF \E k \in 1..Len(folders) : ~Parses(folders[k]) THEN "IndexError"
        ELSE IF Len(folders) = 0 THEN "IndexError"
        ELSE IF ~AllSameAsFirst(toy_names) THEN "ValueError: truth"
        ELSE IF ~AllSameAsFirst(scan_variables) THEN "ValueError: scan"
        ELSE "proceeds"


(***************************************************************************)
(* extract_trials: the cache files and the parsing of the trial folders    *)
(***************************************************************************)
\* the four files extract_trials writes into the log directory, in the order
\* it reads and writes them
data_sets_pckl == <<"data", "_", "sets", ".pckl">>
all_params_pckl == <<"all", "_", "params", ".pckl">>
labels_pckl == <<"labels", ".pckl">>
minimiser_info_pckl == <<"minimiser", "_", "info", ".pckl">>
CacheFiles == <<data_sets_pckl, all_params_pckl, labels_pckl, minimiser_info_pckl>>

\* name in logdir_content
InListing(content, name) == \E k \in 1..Len(content) : content[k] = name

\* config_summary.json of an output folder: the analysis script names the
\* folder after the data it fits, and only Monte Carlo studies are logged
cfg(outputdir) ==
    [data_is_data |-> FALSE, data_name |-> <<"toy">> \o Split(outputdir, "toy")[2]]

\* '%s_%s' % (data_name.split('_')[-2], data_name.split('_')[-1])
injparam(data_name) ==
    LET pieces == Split(data_name, "_")
    IN  IF Len(pieces) >= 2
        THEN pieces[Len(pieces) - 1] \o <<"_">> \o pieces[Len(pieces)]
        ELSE <<"IndexError">>

\* Labels(..., fluctuate_data=fluctuate_data, fluctuate_fid=fluctuate_fid)
Labels(data_name, fluctuate_data, fluctuate_fid) ==
    [data_name |-> data_name, fluctuate_data |-> fluctuate_data, fluctuate_fid |-> fluctuate_fid]

\* The trials logged in every output folder: fits to the unfluctuated data
\* set and to two fluctuated ones, each with a fiducial fit to the
\* unfluctuated and to two fluctuated fiducial distributions.  Indices are
\* written as the strings the folder names hold them in.
DataInds == {"0", "1"}
FidInds == {"0", "1"}

\* the keys of this_data: data_ind of the subdirs labels.subdir_re matches
\* when fluctuate_data, else the one label of the unfluctuated data set
dset_labels(fluctuate_data) == IF fluctuate_data THEN DataInds ELSE {"toy_asimov"}

\* the keys of lvl2_fits[k]: fid_ind of the files matched when fluctuate_fid,
\* else labels.fid
fid_labels(fluctuate_fid) == IF fluctuate_fid THEN FidInds ELSE {"asimov"}

\* this_data of one output folder; a fit is named by the file it is read from
this_data(outputdir, fluctuate_fid, fluctuate_data) ==
    [d \in dset_labels(fluctuate_data) |->
        [f \in fid_labels(fluctuate_fid) |-> <<outputdir, d, f>>]]

\* this_minim_info of one output folder
this_minim_info(outputdir, fluctuate_fid, fluctuate_data) ==
    [d \in dset_labels(fluctuate_data) |->
        [f \in fid_labels(fluctuate_fid) |-> <<outputdir, d, f, "minimizer">>]]

\* these_params of one output folder: the free params of both hypotheses
these_params(outputdir) == <<outputdir, "h0_params", "h1_params">>

\* the loop over logdir_content that fills the four dicts, up to entry k;
\* a later folder with the same injparam replaces an earlier one
RECURSIVE parse_to(_, _, _, _)
parse_to(content, k, fluctuate_fid, fluctuate_data) ==
    IF k = 0
    THEN [all_data |-> <<>>, all_params |-> <<>>, all_labels |-> <<>>, all_minim_info |-> <<>>]
    ELSE LET sofar == parse_to(content, k - 1, fluctuate_fid, fluctuate_data)
             outputdir == content[k]
             key == injparam(cfg(outputdir).data_name)
             Put(dict, value) ==
                 [j \in DOMAIN dict \cup {key} |-> IF j = key THEN value ELSE dict[j]]
         IN  IF ~IsOutputFolder(outputdir) THEN sofar
             ELSE [all_data |->
                       Put(sofar.all_data,
                           this_data(outputdir, fluctuate_fid, fluctuate_data)),
                   all_params |-> Put(sofar.all_params, these_params(outputdir)),
                   all_labels |->
                       Put(sofar.all_labels,
                           Labels(cfg(outputdir).data_name, fluctuate_data, fluctuate_fid)),
                   all_minim_info |->
                       Put(sofar.all_minim_info,
                           this_minim_info(outputdir, fluctuate_fid, fluctuate_data))]

\* what the parsing of the trial folders gives for the flags of the call
parse_trials(content, fluctuate_fid, fluctuate_data) ==
    LET d == parse_to(content, Len(content), fluctuate_fid, fluctuate_data)
    IN  <<d.all_data, d.all_params, d.all_labels, d.all_minim_info>>

\* the listing after to_file has written the four files
RECURSIVE with_files(_, _)
with_files(content, k) ==
    IF k = 0 THEN content
    ELSE LET sofar == with_files(content, k - 1)
         IN  IF InListing(sofar, CacheFiles[k]) THEN sofar
             ELSE Append(sofar, CacheFiles[k])

\* the cache branch with a missing file answered by parsing afresh
load_or_parse_fallback(content, fs, fluctuate_fid, fluctuate_data) ==
    IF /\ InListing(content, data_sets_pckl)
       /\ \A k \in 2..4 : InListing(content, CacheFiles[k])
    THEN [raised |-> "none",
          returned |-> <<fs[CacheFiles[1]], fs[CacheFiles[2]], fs[CacheFiles[3]], fs[CacheFiles[4]]>>,
          listed |-> {}, written |-> {}, content |-> content, files |-> fs]
    ELSE LET r == parse_trials(content, fluctuate_fid, fluctuate_data)
         IN  [raised |-> "none",
              returned |-> r,
              listed |-> {content[k] : k \in 1..Len(content)},
              written |-> {CacheFiles[k] : k \in 1..4},
              content |-> with_files(content, 4),
              files |-> [n \in {CacheFiles[k] : k \in 1..4} |->
                            r[CHOOSE k \in 1..4 : CacheFiles[k] = n]]]

\* extract_trials past its two uniformity checks: what it raises or returns,
\* the entries it lists, the files it writes, and the log directory after it
load_or_parse(content, fs, fluctuate_fid, fluctuate_data) ==
    LET stays == [listed |-> {}, written |-> {}, content |-> content, files |-> fs]
        Raise(e) == [raised |-> e, returned |-> <<>>] @@ stays
    IN  IF InListing(content, data_sets_pckl)
        THEN IF ~InListing(content, all_params_pckl) THEN Raise("ValueError: all_params.pckl")
             ELSE IF ~InListing(content, labels_pckl) THEN Raise("ValueError: labels.pckl")
             ELSE IF ~InListing(content, minimiser_info_pckl)
                  THEN Raise("ValueError: minimiser_info.pckl")
             ELSE [raised |-> "none",
                   returned |-> <<fs[data_sets_pckl], fs[all_params_pckl],
                                  fs[labels_pckl], fs[minimiser_info_pckl]>>] @@ stays
        ELSE IF \E k \in 1..Len(content) : Contains(content[k], ".pckl")
             THEN \* os.listdir of an entry that is a file
                  LET first == CHOOSE k \in 1..Len(content) :
                                   /\ Contains(content[k], ".pckl")
                                   /\ \A j \in 1..(k - 1) : ~Contains(content[j], ".pckl")
                  IN  [raised |-> "OSError", returned |-> <<>>,
                       listed |-> {content[j] : j \in 1..first},
                       written |-> {}, content |-> content, files |-> fs]
             ELSE LET r == parse_trials(content, fluctuate_fid, fluctuate_data)
                  IN  [raised |-> "none",
                       returned |-> r,
                       listed |-> {content[k] : k \in 1..Len(content)},
                       written |-> {CacheFiles[k] : k \in 1..4},
                       content |-> with_files(content, 4),
                       files |-> [n \in {CacheFiles[k] : k \in 1..4} |->
                                     r[CHOOSE k \in 1..4 : CacheFiles[k] = n]]]


(***************************************************************************)
(* calculate_deltachi2_signifiances                                        *)
(***************************************************************************)
\* largest numerator root of a metric value, and most points of a scan
MaxMetric == 2
MaxPoints == 2

\* the root of a perfect square
ISqrt(n) == CHOOSE r \in 0..n : r * r = n

\* np.sqrt, on fractions of perfect squares: nan for a negative number
sqrt(x) ==
    IF x = NaN \/ IsNeg(x) THEN NaN
    ELSE IF ~IsFinite(x) THEN x
    ELSE <<ISqrt(x[1]), ISqrt(x[2])>>

\* the significances with the square root left out of the denominator
calculate_deltachi2_signifiances_no_sqrt(WO_to_TO, TO_to_WO) ==
    [k \in 1..Len(WO_to_TO) |->
        Div(Add(WO_to_TO[k], TO_to_WO[k]), Mul(FromInt(2), WO_to_TO[k]))]

\* num / denom of two arrays of one length, element by element
calculate_deltachi2_signifiances(WO_to_TO, TO_to_WO) ==
    LET num == [k \in 1..Len(WO_to_TO) |-> Add(WO_to_TO[k], TO_to_WO[k])]
        denom == [k \in 1..Len(WO_to_TO) |-> Mul(FromInt(2), sqrt(WO_to_TO[k]))]
    IN  [k \in 1..Len(WO_to_TO) |-> Div(num[k], denom[k])]


(***************************************************************************)
(* honda.load_2D_table, integral-preserving, and the spline lookup of      *)
(* compute_2D_outputs                                                      *)
(***************************************************************************)
\* most energy bins of a flux table (the Honda tables have 101)
MaxTableBins == 2

\* np.split(flux_dict[key], 20): the coszen rows of a table
NumCZ == 20

\* A float is kept in units of 1e-4; float_err is what the floating-point
\* evaluation of an expression is off by, far less than one unit, kept as
\* -1, 0 or 1 unit.

\* '%.2f' % value: the sign, and the hundredths rounded to the nearest
Format2(value) == <<IF value < 0 THEN "-" ELSE "", (Abs(value) + 50) \div 100>>

\* CZvalue = '%.2f' % (1.05 - CZiter * 0.1)
CZvalue(CZiter, float_err) == Format2(10500 - CZiter * 1000 + float_err)

\* '%.2f' % czkey for the j-th czkey of np.linspace(-0.95, 0.95, 20)
czkey(j, float_err) == Format2(-9500 + (j - 1) * 1000 + float_err)

\* np.linspace(-1.025, 4.025, 102), for a table of n energy bins: its edges
logenergy(n) == [k \in 1..(n + 1) |-> Frac(-1025 + 50 * (k - 1), 1000)]

\* the running sum with the factor energy left out
RECURSIVE int_flux_unweighted(_, _, _)
int_flux_unweighted(energyfluxlist, energy, k) ==
    IF k = 0 THEN <<Zero>>
    ELSE LET sofar == int_flux_unweighted(energyfluxlist, energy, k - 1)
         IN  Append(sofar, Add(sofar[Len(sofar)], energyfluxlist[k]))

\* int_flux after k turns of the loop over zip(energyfluxlist, energy)
RECURSIVE int_flux(_, _, _)
int_flux(energyfluxlist, energy, k) ==
    IF k = 0 THEN <<Zero>>
    ELSE LET sofar == int_flux(energyfluxlist, energy, k - 1)
             tot_flux == Add(sofar[Len(sofar)], Mul(energyfluxlist[k], energy[k]))
         IN  Append(sofar, tot_flux)

Min(a, b) == IF a < b THEN a ELSE b

\* interpolate.splrep(x, y, s=0): the spline through the points, kept as the
\* points
splrep(x, y) == [x |-> x, y |-> y]

\* splines of one primary: the spline of each row under its CZvalue, a later
\* row replacing an earlier one of the same key
splines_of(rows, energy, float_err) ==
    LET key(r) == CZvalue(r, float_err[r])
        last(k) == CHOOSE r \in 1..Len(rows) :
                       /\ key(r) = k
                       /\ \A q \in (r + 1)..Len(rows) : key(q) # k
    IN  [k \in {key(r) : r \in 1..Len(rows)} |->
            splrep(logenergy(Len(energy)),
                   int_flux(rows[last(k)], energy,
                            Min(Len(rows[last(k)]), Len(energy))))]

\* self.spline_dict as load_2D_table leaves it in integral-preserving mode
load_2D_table_splines(flux, float_err) ==
    [nutype \in Primaries |->
        splines_of(flux[nutype], flux["energy"], float_err)]


(***************************************************************************)
(* State                                                                   *)
(***************************************************************************)
VARIABLES
    map1, map2, ratio_scale,  \* the arguments of an apply_ratio_scale call
    scaled,                   \* what that call returned, <<>> before it
    output_maps,              \* honda: the interpolated map of each primary
    params,                   \* honda: the three systematic params
    call,                     \* honda: the method that returned flux_maps
    flux_maps,                \* honda: the MapSet last returned, or "none"
    delta_in,                 \* honda: the MapSet apply_delta_index was given
    use_honda_nominal_flux,   \* mceq_barr: the constructor flag
    barr_params,              \* mceq_barr: self.params, by param name
    gradient_params,          \* mceq_barr: self.gradient_params
    data,                     \* mceq_barr: the containers, by name
    barr_ran,                 \* mceq_barr: compute_function has run
    logdir_content,           \* extract_trials: os.listdir(logdir)
    files,                    \* extract_trials: the content of the cache files
    fluctuate_fid,            \* extract_trials: the flags of the last call
    fluctuate_data,
    raised,                   \* extract_trials: raised past the checks, or "none"
    returned,                 \* extract_trials: the four dicts returned, or <<>>
    listed,                   \* extract_trials: the entries the last call listed
    written,                  \* extract_trials: the files the last call wrote
    outcome,                  \* extract_trials: how the last call went on
    WO_to_TO_metrics,         \* calculate_deltachi2_signifiances: its arguments
    TO_to_WO_metrics,
    significances,            \* what it returned, <<>> before the call
    stats_ran,                \* calculate_deltachi2_signifiances has returned
    flux_dict,                \* load_2D_table: the table, by column name
    spline_dict,              \* honda: self.spline_dict, <<>> before it is set
    table_call,               \* honda: the last of the two table methods run
    prim,                     \* compute_2D_outputs: its argument
    spline_vals_of,           \* compute_2D_outputs: the splines it looked up
    key_error                 \* compute_2D_outputs: a lookup raised KeyError

ratio_vars == <<map1, map2, ratio_scale, scaled>>
honda_vars == <<output_maps, params, call, flux_maps, delta_in>>
barr_vars == <<use_honda_nominal_flux, barr_params, gradient_params, data, barr_ran>>
trials_vars ==
    <<logdir_content, files, fluctuate_fid, fluctuate_data, outcome, raised, returned, listed, written>>
stats_vars == <<WO_to_TO_metrics, TO_to_WO_metrics, significances, stats_ran>>
table_vars == <<flux_dict, spline_dict, table_call, prim, spline_vals_of, key_error>>
vars == <<ratio_vars, honda_vars, barr_vars, trials_vars, stats_vars, table_vars>>

\* a map with the energy profile level and a coszen profile rising with the
\* coszen bin (a flux table's content integrated over each output bin)
FluxMap(level) == [b \in Bins |-> FromInt(level[b[2]] * b[1])]

\* the values a ratio systematic is given in the pipeline: scale factors > 0
RatioVals == {Frac(1, 2), One, FromInt(2)}

\* the values apply_ratio_scale is tried on
ScaleVals == {FromInt(-1), Zero, Frac(1, 2), One, FromInt(2)}

IndexVals == (-MaxIndex)..MaxIndex

NominalParams == [nue_numu_ratio |-> One, nu_nubar_ratio |-> One, atm_delta_index |-> 0]

RatioIdle ==
    /\ map1 = "none" /\ map2 = "none" /\ ratio_scale = "none" /\ scaled = <<>>

HondaIdle ==
    /\ output_maps = "none" /\ params = "none"
    /\ call = "none" /\ flux_maps = "none" /\ delta_in = "none"

BarrIdle ==
    /\ use_honda_nominal_flux = "none" /\ barr_params = "none"
    /\ gradient_params = "none" /\ data = "none" /\ barr_ran = FALSE

StatsIdle ==
    /\ WO_to_TO_metrics = <<>> /\ TO_to_WO_metrics = <<>>
    /\ significances = <<>> /\ stats_ran = FALSE

TableIdle ==
    /\ flux_dict = <<>> /\ spline_dict = <<>> /\ table_call = "none"
    /\ prim = "none" /\ spline_vals_of = <<>> /\ key_error = FALSE

TrialsIdle ==
    /\ logdir_content = <<>>
    /\ files = <<>>
    /\ fluctuate_fid = FALSE
    /\ fluctuate_data = FALSE
    /\ outcome = "none"
    /\ raised = "none"
    /\ returned = <<>>
    /\ listed = {}
    /\ written = {}

(***************************************************************************)
(* apply_ratio_scale on its own                                            *)
(***************************************************************************)
InitRatio ==
    /\ map1 \in {FluxMap(l) : l \in [EIdx -> 0..MaxFlux]}
    /\ map2 \in {FluxMap(l) : l \in [EIdx -> 0..MaxFlux]}
    /\ ratio_scale \in ScaleVals
    /\ scaled = <<>>
    /\ HondaIdle
    /\ BarrIdle
    /\ TrialsIdle
    /\ StatsIdle
    /\ TableIdle

CallApplyRatioScale ==
    /\ scaled = <<>>
    /\ scaled' = apply_ratio_scale(map1, map2, ratio_scale)
    /\ UNCHANGED <<map1, map2, ratio_scale, honda_vars, barr_vars, trials_vars, stats_vars, table_vars>>

NextRatio == CallApplyRatioScale

SpecRatio == InitRatio /\ [][NextRatio]_vars

(***************************************************************************)
(* honda._compute_outputs                                                  *)
(***************************************************************************)
\* the energy profiles of the interpolated maps; the antineutrino maps are
\* taken flat in energy to keep the space of flux tables small
\* (levels above 2 take the fractions of the three chained systematics past
\* the 32-bit integers of the model checker)
TableLevels == 1..2
NuLevels == [EIdx -> TableLevels]
NubarLevels == {[e \in EIdx |-> k] : k \in TableLevels}

\* compute_2D_outputs gives a strictly positive map for every primary
\* (10 ** spline, times the bin volume, times 2 pi)
InitHonda ==
    /\ \E le \in NuLevels, lm \in NuLevels, be \in NubarLevels, bm \in NubarLevels :
        output_maps = [numu |-> FluxMap(lm), numubar |-> FluxMap(bm),
                       nue |-> FluxMap(le), nuebar |-> FluxMap(be)]
    /\ params = NominalParams
    /\ call = "none"
    /\ flux_maps = "none"
    /\ delta_in = "none"
    /\ RatioIdle
    /\ BarrIdle
    /\ TrialsIdle
    /\ StatsIdle
    /\ TableIdle

\* a ratio param of the stage is given a new value; the maps are computed afresh
SetRatioParam ==
    /\ \E r \in RatioVals :
        \/ params' = [params EXCEPT !.nue_numu_ratio = r]
        \/ params' = [params EXCEPT !.nu_nubar_ratio = r]
    /\ params' # params
    /\ call' = "none"
    /\ flux_maps' = "none"
    /\ delta_in' = "none"
    /\ UNCHANGED <<output_maps, ratio_vars, barr_vars, trials_vars, stats_vars, table_vars>>

\* atm_delta_index is given a new value
SetIndexParam ==
    /\ \E i \in IndexVals : params' = [params EXCEPT !.atm_delta_index = i]
    /\ params' # params
    /\ call' = "none"
    /\ flux_maps' = "none"
    /\ delta_in' = "none"
    /\ UNCHANGED <<output_maps, ratio_vars, barr_vars, trials_vars, stats_vars, table_vars>>

\* _compute_outputs()
ComputeOutputs ==
    /\ call = "none"
    /\ call' = "_compute_outputs"
    /\ flux_maps' = compute_outputs(output_maps, params)
    /\ delta_in' = IF params.atm_delta_index # 0
                   THEN after_ratios(output_maps, params)
                   ELSE "none"
    /\ UNCHANGED <<output_maps, params, ratio_vars, barr_vars, trials_vars, stats_vars, table_vars>>

\* apply_delta_index(flux_maps) called on the interpolated maps themselves;
\* it reads atm_delta_index only, so the ratio params are left at 1
CallApplyDeltaIndex ==
    /\ call = "none"
    /\ params.nue_numu_ratio = One /\ params.nu_nubar_ratio = One
    /\ call' = "apply_delta_index"
    /\ flux_maps' = apply_delta_index(output_maps, params.atm_delta_index)
    /\ delta_in' = output_maps
    /\ UNCHANGED <<output_maps, params, ratio_vars, barr_vars, trials_vars, stats_vars, table_vars>>

NextHonda ==
    \/ SetRatioParam
    \/ SetIndexParam
    \/ ComputeOutputs
    \/ CallApplyDeltaIndex

SpecHonda == InitHonda /\ [][NextHonda]_vars


(***************************************************************************)
(* mceq_barr.compute_function                                              *)
(***************************************************************************)
Events == 1..1
ContainerNames == {"nu", "nubar"}

\* the values a Barr param and pion_ratio are given
BarrVals == {Frac(k, 2) : k \in (-2)..MaxBarr}
PionRatioVals == {FromInt(-1), Zero, Frac(1, 2)}
DeltaVals == {-1, 0, 2}

\* the params that are moved away from their nominal values
VariedBarr == {"barr_a_Pi", "barr_w_antiK"}

NominalBarrParams ==
    [n \in expected_params |->
        IF n = "delta_index" THEN 0
        ELSE IF n = "energy_pivot" THEN FromInt(2)
        ELSE Zero]

\* what setup_function leaves in a container: the event energies, the
\* nominal fluxes and the spline gradients (of either sign), and nu_flux
\* filled with nan
Container(nubar, nom, grad) ==
    [nubar |-> nubar,
     true_energy |-> [ev \in Events |-> IF nubar > 0 THEN One ELSE FromInt(4)],
     nu_flux_nominal |-> [ev \in Events |-> [f \in Flavs |-> FromInt(nom * f)]],
     nubar_flux_nominal |->
        [ev \in Events |-> [f \in Flavs |-> FromInt(nom * (f + ev))]],
     gradients |->
        [ev \in Events |-> [f \in Flavs |-> [k \in GradIdx |->
            FromInt(nubar * grad * (((k + f + ev) % 3) - 1))]]],
     nu_flux |-> [ev \in Events |-> [f \in Flavs |-> NaN]]]

InitBarr ==
    /\ use_honda_nominal_flux \in BOOLEAN
    /\ barr_params = NominalBarrParams
    \* np.empty: not read before compute_function has populated it
    /\ gradient_params = [k \in GradIdx |-> NaN]
    /\ \E nom \in {-1, 2}, grad \in {1, 3} :
        data = [c \in ContainerNames |->
                    Container(IF c = "nu" THEN 1 ELSE -1, nom, grad)]
    /\ barr_ran = FALSE
    /\ RatioIdle
    /\ HondaIdle
    /\ TrialsIdle
    /\ StatsIdle
    /\ TableIdle

\* the key compute_function reads the nominal flux of a container from
nominal_flux_key(container) ==
    IF use_honda_nominal_flux
    THEN (IF container.nubar > 0 THEN "nu_flux_nominal" ELSE "nubar_flux_nominal")
    ELSE "nu_flux_nominal"

\* the loop of compute_function over the containers, for the param values p
\* and the populated gradient_params gp: nu_flux rewritten in each container
compute_data(p, gp, d) ==
    [c \in ContainerNames |->
        [d[c] EXCEPT !.nu_flux =
            [ev \in Events |->
                apply_sys_kernel(d[c].true_energy[ev], p["delta_index"],
                                 p["energy_pivot"],
                                 d[c][nominal_flux_key(d[c])][ev],
                                 d[c].gradients[ev], gp)]]]

\* the pipeline gives one param a new value (or none) and runs compute_function
compute_function ==
    \E p \in {barr_params}
          \cup {[barr_params EXCEPT ![n] = v] : n \in VariedBarr, v \in BarrVals}
          \cup {[barr_params EXCEPT !["pion_ratio"] = v] : v \in PionRatioVals}
          \cup {[barr_params EXCEPT !["delta_index"] = v] : v \in DeltaVals} :
        /\ barr_params' = p
        /\ gradient_params' = populate_gradient_params(p)
        /\ data' = compute_data(p, gradient_params', data)
        /\ barr_ran' = TRUE
        /\ UNCHANGED <<use_honda_nominal_flux, ratio_vars, honda_vars, trials_vars, stats_vars, table_vars>>

NextBarr == compute_function

SpecBarr == InitBarr /\ [][NextBarr]_vars


(***************************************************************************)
(* extract_trials                                                          *)
(***************************************************************************)
\* the names a log directory is filled from
EntryNames ==
    {<<"hypo", "_", "NO", "_", "toy", "_", "IO", "_", "deltam31", "_", "v1">>,
     <<"hypo", "_", "NO", "_", "toy", "_", "IO", "_", "deltam31", "_", "v2">>,
     <<"hypo", "_", "NO", "_", "toy", "_", "NO", "_", "deltam31", "_", "v1">>,
     <<"hypo", "_", "NO", "_", "toy", "_", "IO", "_", "theta23", "_", "v1">>,
     data_sets_pckl, all_params_pckl, labels_pckl, minimiser_info_pckl,
     <<"toy", "_", "NO", "_", "deltam31", "Plots">>,
     <<"hypo", "_", "NO">>,
     <<"toy", "_", "IO">>}

\* os.listdir(logdir): distinct names in any order
Listings ==
    {c \in UNION {[1..n -> EntryNames] : n \in 0..MaxEntries} :
        \A j, k \in 1..Len(c) : j # k => c[j] # c[k]}

\* the output folders of a listing whose names the analysis script gave
RECURSIVE Parseable(_, _)
Parseable(content, k) ==
    IF k = 0 THEN <<>>
    ELSE IF IsOutputFolder(content[k]) /\ Parses(content[k])
         THEN Append(Parseable(content, k - 1), content[k])
         ELSE Parseable(content, k - 1)

\* the cache files a listing holds, as an earlier run of extract_trials with
\* the flags fid and dat wrote them
EarlierFiles(content, fid, dat) ==
    LET r == parse_trials(Parseable(content, Len(content)), fid, dat)
    IN  [n \in {CacheFiles[k] : k \in {j \in 1..4 : InListing(content, CacheFiles[j])}} |->
            r[CHOOSE k \in 1..4 : CacheFiles[k] = n]]

\* the log directory as the analysis runs, earlier runs of extract_trials and
\* the user's deletions left it
InitTrials ==
    /\ logdir_content \in Listings
    /\ \E fid, dat \in BOOLEAN : files = EarlierFiles(logdir_content, fid, dat)
    /\ fluctuate_fid = FALSE
    /\ fluctuate_data = FALSE
    /\ outcome = "none"
    /\ raised = "none"
    /\ returned = <<>>
    /\ listed = {}
    /\ written = {}
    /\ RatioIdle
    /\ HondaIdle
    /\ BarrIdle
    /\ StatsIdle
    /\ TableIdle

\* extract_trials(logdir, fluctuate_fid, fluctuate_data)
extract_trials ==
    \E fid, dat \in BOOLEAN :
        LET screened == screen_logdir(logdir_content)
            r == load_or_parse(logdir_content, files, fid, dat)
        IN  /\ fluctuate_fid' = fid
            /\ fluctuate_data' = dat
            /\ outcome' = screened
            /\ IF screened = "proceeds"
               THEN /\ raised' = r.raised
                    /\ returned' = r.returned
                    /\ listed' = r.listed
                    /\ written' = r.written
                    /\ logdir_content' = r.content
                    /\ files' = r.files
               ELSE /\ raised' = "none"
                    /\ returned' = <<>>
                    /\ listed' = {}
                    /\ written' = {}
                    /\ UNCHANGED <<logdir_content, files>>
            /\ UNCHANGED <<ratio_vars, honda_vars, barr_vars, stats_vars, table_vars>>

NextTrials == extract_trials

SpecTrials == InitTrials /\ [][NextTrials]_vars


(***************************************************************************)
(* calculate_deltachi2_signifiances on the metrics of an Asimov scan       *)
(***************************************************************************)
\* chi-squared values: not negative, here fractions of perfect squares
MetricVals == {Frac(a * a, b * b) : a \in 0..MaxMetric, b \in 1..2}

\* extract_asimov_data appends to both lists once per scan point
InitStats ==
    /\ \E n \in 0..MaxPoints :
           /\ WO_to_TO_metrics \in [1..n -> MetricVals]
           /\ TO_to_WO_metrics \in [1..n -> MetricVals]
    /\ significances = <<>>
    /\ stats_ran = FALSE
    /\ RatioIdle
    /\ HondaIdle
    /\ BarrIdle
    /\ TrialsIdle
    /\ TableIdle

CallCalculateSignificances ==
    /\ ~stats_ran
    /\ significances' = calculate_deltachi2_signifiances(WO_to_TO_metrics, TO_to_WO_metrics)
    /\ stats_ran' = TRUE
    /\ UNCHANGED <<WO_to_TO_metrics, TO_to_WO_metrics, ratio_vars, honda_vars, barr_vars, trials_vars, table_vars>>

NextStats == CallCalculateSignificances

SpecStats == InitStats /\ [][NextStats]_vars


(***************************************************************************)
(* honda.load_2D_table and the lookups of compute_2D_outputs               *)
(***************************************************************************)
\* what floating-point evaluation is off by in each of the 20 keys
FloatErrs ==
    {[r \in 1..NumCZ |-> c] : c \in (-1)..1}
        \cup {[r \in 1..NumCZ |-> IF r % 2 = 0 THEN 1 ELSE -1]}

\* the energy column of a table of n bins
TableEnergy(n) == [k \in 1..n |-> FromInt(k)]

\* the rows of one primary: the flux follows the energy profile level above
\* the floor base, and differs from row to row and from primary to primary
TableRows(level, base, p) ==
    [r \in 1..NumCZ |-> [k \in 1..Len(level) |-> Frac(level[k] * r + base + p, p + 1)]]

\* the table np.loadtxt reads, split into its columns and rows
InitTable ==
    /\ \E n \in 1..MaxTableBins : \E level \in [1..n -> 0..MaxFlux], base \in 0..MaxFlux :
           flux_dict = [c \in Primaries \cup {"energy"} |->
                           IF c = "energy" THEN TableEnergy(n)
                           ELSE TableRows(level, base,
                                          CHOOSE i \in 1..Len(primaries) : primaries[i] = c)]
    /\ spline_dict = <<>>
    /\ table_call = "none"
    /\ prim = "none"
    /\ spline_vals_of = <<>>
    /\ key_error = FALSE
    /\ RatioIdle
    /\ HondaIdle
    /\ BarrIdle
    /\ TrialsIdle
    /\ StatsIdle

\* load_2D_table() with flux_mode 'integral-preserving'
load_2D_table ==
    /\ table_call = "none"
    /\ \E float_err \in FloatErrs :
           spline_dict' = load_2D_table_splines(flux_dict, float_err)
    /\ table_call' = "load_2D_table"
    /\ UNCHANGED <<flux_dict, prim, spline_vals_of, key_error>>
    /\ UNCHANGED <<ratio_vars, honda_vars, barr_vars, trials_vars, stats_vars>>

\* compute_2D_outputs(prim) with flux_mode 'integral-preserving': the splines
\* its loop over czkey reads from spline_dict[prim], up to the first KeyError
compute_2D_outputs ==
    /\ table_call # "none"
    /\ \E p \in Primaries : \E float_err \in FloatErrs :
           LET found(j) == czkey(j, float_err[j]) \in DOMAIN spline_dict[p]
               reads == IF \A j \in 1..NumCZ : found(j) THEN NumCZ
                        ELSE (CHOOSE j \in 1..NumCZ :
                                 ~found(j) /\ \A i \in 1..(j - 1) : found(i)) - 1
           IN  /\ prim' = p
               /\ spline_vals_of' =
                      [j \in 1..reads |-> spline_dict[p][czkey(j, float_err[j])]]
               /\ key_error' = (reads < NumCZ)
    /\ table_call' = "compute_2D_outputs"
    /\ UNCHANGED <<flux_dict, spline_dict>>
    /\ UNCHANGED <<ratio_vars, honda_vars, barr_vars, trials_vars, stats_vars>>

NextTable == load_2D_table \/ compute_2D_outputs

SpecTable == InitTable /\ [][NextTable]_vars


(***************************************************************************)
(* Claims on honda                                                         *)
(***************************************************************************)
\* C1: in every bin where map1 and map2 are positive, and for ratio_scale > 0,
\* apply_ratio_scale returns maps whose ratio is (map1 / map2) * ratio_scale.
C1_RatioScaled ==
    scaled # <<>> /\ IsPos(ratio_scale) =>
        \A b \in Bins :
            IsPos(map1[b]) /\ IsPos(map2[b]) =>
                EqF(Div(scaled[1][b], scaled[2][b]),
                    Mul(Div(map1[b], map2[b]), ratio_scale))

C1_Witness ==
    /\ scaled # <<>>
    /\ IsPos(ratio_scale) /\ ratio_scale # One
    /\ \A b \in Bins : IsPos(map1[b]) /\ IsPos(map2[b])
    /\ \E b \in Bins : map1[b] # map2[b]

RatioDefined(b) ==
    /\ map2[b] # Zero
    /\ Add(One, Mul(ratio_scale, Div(map1[b], map2[b]))) # Zero

DeltaApplied ==
    \/ call = "apply_delta_index"
    \/ call = "_compute_outputs" /\ params.atm_delta_index # 0

\* the content of the maps p and q together, summed over all bins
Total2(maps, p, q) == Add(HistSum(maps[p]), HistSum(maps[q]))

\* C3 as stated: with the flux table, nu_nubar_ratio and atm_delta_index
\* held fixed, _compute_outputs returns the same total nue + numu for every
\* nue_numu_ratio as for nue_numu_ratio = 1.
C3_NueNumuTotalKept ==
    call = "_compute_outputs" =>
        EqF(Total2(flux_maps, "nue", "numu"),
            Total2(compute_outputs(output_maps,
                                   [params EXCEPT !.nue_numu_ratio = One]),
                   "nue", "numu"))

\* C4: with the flux table, nue_numu_ratio and atm_delta_index held fixed,
\* _compute_outputs returns the same total nue + nuebar and the same total
\* numu + numubar for every nu_nubar_ratio as for nu_nubar_ratio = 1.
C4_NuNubarTotalKept ==
    call = "_compute_outputs" =>
        LET unit == compute_outputs(output_maps,
                                    [params EXCEPT !.nu_nubar_ratio = One])
        IN  /\ EqF(Total2(flux_maps, "nue", "nuebar"), Total2(unit, "nue", "nuebar"))
            /\ EqF(Total2(flux_maps, "numu", "numubar"),
                   Total2(unit, "numu", "numubar"))

C4_Witness ==
    /\ call = "_compute_outputs"
    /\ params.nu_nubar_ratio # One
    /\ params.nue_numu_ratio # One
    /\ params.atm_delta_index # 0
    /\ flux_maps["numu"] #
           compute_outputs(output_maps, [params EXCEPT !.nu_nubar_ratio = One])["numu"]

\* C5: apply_delta_index returns a numu map with the same sum over all bins
\* as the numu map it was given, and likewise for numubar.
C5_DeltaIndexNormKept ==
    DeltaApplied =>
        /\ EqF(HistSum(flux_maps["numu"]), HistSum(delta_in["numu"]))
        /\ EqF(HistSum(flux_maps["numubar"]), HistSum(delta_in["numubar"]))

C5_Witness ==
    /\ call = "_compute_outputs"
    /\ params.atm_delta_index # 0
    /\ flux_maps["numu"] # delta_in["numu"]
    /\ flux_maps["numubar"] # delta_in["numubar"]

\* C6: apply_delta_index returns the nue and nuebar maps it was given,
\* unchanged in every bin.
C6_DeltaIndexFrame ==
    DeltaApplied =>
        /\ flux_maps["nue"] = delta_in["nue"]
        /\ flux_maps["nuebar"] = delta_in["nuebar"]

C6_Witness ==
    /\ call = "apply_delta_index"
    /\ params.atm_delta_index # 0
    /\ flux_maps["numu"] # delta_in["numu"]
    /\ \E b \in Bins : \E c \in Bins : delta_in["nue"][b] # delta_in["nue"][c]


(***************************************************************************)
(* Claims on mceq_barr                                                     *)
(***************************************************************************)
\* the flux of one event and flavour before negative results are replaced:
\* the nominal flux handed to the kernel times the spectral-index factor,
\* plus the gradient terms as they are
Unclipped(c, ev, f) ==
    LET container == data[c]
        nominal == container[nominal_flux_key(container)][ev][f]
        factor == Pow(Div(container.true_energy[ev], barr_params["energy_pivot"]),
                      barr_params["delta_index"])
    IN  Add(Mul(nominal, factor),
            DotTo(container.gradients[ev][f], gradient_params, Len(gradient_params)))

\* C7: for every event and flavour, nu_flux = max(0, nu_flux_nominal *
\* (true_energy / energy_pivot)^delta_index + sum_k gradients[k] *
\* gradient_params[k]); the gradient terms are not scaled by the factor.
C7_FluxFormula ==
    barr_ran =>
        \A c \in ContainerNames : \A ev \in Events : \A f \in Flavs :
            data[c].nu_flux[ev][f] =
                (IF IsNeg(Unclipped(c, ev, f)) THEN Zero ELSE Unclipped(c, ev, f))

C7_Witness ==
    /\ barr_ran
    /\ barr_params["delta_index"] # 0
    /\ \E c \in ContainerNames : \E ev \in Events : \E f \in Flavs :
        /\ data[c].true_energy[ev] # barr_params["energy_pivot"]
        /\ IsFinite(data[c].nu_flux[ev][f]) /\ IsPos(data[c].nu_flux[ev][f])
        /\ DotTo(data[c].gradients[ev][f], gradient_params, Len(gradient_params))
               \notin {Zero, NaN}

\* C8: after any sequence of compute_function calls no entry of any
\* container's nu_flux is negative.
C8_FluxNotNegative ==
    \A c \in ContainerNames : \A ev \in Events : \A f \in Flavs :
        ~IsNeg(data[c].nu_flux[ev][f])

C8_Witness ==
    /\ barr_ran
    /\ \E c \in ContainerNames : \E ev \in Events : \E f \in Flavs :
        /\ IsFinite(Unclipped(c, ev, f)) /\ IsNeg(Unclipped(c, ev, f))
        /\ data[c].nu_flux[ev][f] = Zero

\* C9: compute_function gives each of a- .. i- the value b- computed from the
\* matching a+ .. i+ (the barr_*_Pi param) that satisfies
\* (1 + b+) / (1 + b-) - 1 = pion_ratio, whenever b+ # -1 and pion_ratio # -1.
C9_AntipionRatio ==
    barr_ran =>
        \A n \in PionSet :
            LET plus == gradient_params[gradient_param_indices[<<n, "+">>]]
                minus == gradient_params[gradient_param_indices[<<n, "-">>]]
                pion_ratio == barr_params["pion_ratio"]
            IN  /\ plus = barr_params[Pi_param[n]]
                /\ plus # FromInt(-1) /\ pion_ratio # FromInt(-1) =>
                       EqF(Sub(Div(Add(One, plus), Add(One, minus)), One), pion_ratio)

C9_Witness ==
    /\ barr_ran
    /\ barr_params["pion_ratio"] \notin {Zero, FromInt(-1)}
    /\ barr_params["barr_a_Pi"] \notin {Zero, FromInt(-1)}
    /\ gradient_params[gradient_param_indices[<<"a", "-">>]] # barr_params["barr_a_Pi"]


(***************************************************************************)
(* Claims on extract_trials                                                *)
(***************************************************************************)
\* the entries of the log directory whose name has neither '.pckl' nor 'Plots'
OutputFolders ==
    {logdir_content[k] : k \in {j \in 1..Len(logdir_content) :
        ~Contains(logdir_content[j], ".pckl") /\ ~Contains(logdir_content[j], "Plots")}}

SameTruth == \A f, g \in OutputFolders : toy_name(f) = toy_name(g)
SameScan == \A f, g \in OutputFolders : scan_variable(f) = scan_variable(g)

\* C10: extract_trials raises ValueError when the output folders do not all
\* have the same injected truth name or do not all scan the same variable,
\* and it goes on only when both are the same across all output folders.
C10_UniformOrValueError ==
    outcome # "none" =>
        /\ (\A f \in OutputFolders : Parses(f)) /\ ~(SameTruth /\ SameScan) =>
               outcome \in {"ValueError: truth", "ValueError: scan"}
        /\ outcome = "proceeds" =>
               /\ \A f \in OutputFolders : Parses(f)
               /\ SameTruth /\ SameScan

C10_Witness ==
    /\ outcome = "ValueError: scan"
    /\ Cardinality(OutputFolders) >= 2
    /\ Len(logdir_content) > Cardinality(OutputFolders)

\* the three cache files read after data_sets.pckl are all in the listing
OthersListed == \A k \in 2..4 : InListing(logdir_content, CacheFiles[k])

\* C11: a call of extract_trials that gets past the two uniformity checks with
\* data_sets.pckl in the log directory returns the contents of the four cache
\* files when the other three are there, and raises ValueError when one of
\* them is missing; in either case it lists no trial folder and writes no file.
C11_CacheOrValueError ==
    [][(/\ screen_logdir(logdir_content) = "proceeds"
        /\ InListing(logdir_content, data_sets_pckl)) =>
           /\ OthersListed =>
                  /\ raised' = "none"
                  /\ returned' = <<files[data_sets_pckl], files[all_params_pckl],
                                    files[labels_pckl], files[minimiser_info_pckl]>>
           /\ ~OthersListed =>
                  /\ raised' \in {"ValueError: all_params.pckl", "ValueError: labels.pckl",
                                  "ValueError: minimiser_info.pckl"}
                  /\ returned' = <<>>
           /\ listed' = {}
           /\ written' = {}
           /\ logdir_content' = logdir_content
           /\ files' = files]_vars

C11_Witness ==
    /\ outcome = "proceeds"
    /\ raised = "ValueError: labels.pckl"
    /\ InListing(logdir_content, data_sets_pckl)
    /\ InListing(logdir_content, all_params_pckl)
    /\ written = {}

\* C12 as stated: every call of extract_trials that returns, returns the
\* results extracted from the trial folders for the fluctuate_fid and
\* fluctuate_data given to that call, whatever the calls before it were given.
C12_FlagsSeparateAnalyses ==
    (outcome = "proceeds" /\ raised = "none") =>
        returned = parse_trials(logdir_content, fluctuate_fid, fluctuate_data)


(***************************************************************************)
(* Claims on calculate_deltachi2_signifiances                              *)
(***************************************************************************)
\* the fractions a metric value can be the square of
Roots == {Frac(a, b) : a \in 0..(MaxMetric + 1), b \in 1..2}

\* C13: calculate_deltachi2_signifiances returns one significance per pair of
\* metrics, the k-th for the k-th pair; where WO_to_TO_metric is positive it
\* is the number that, times 2 * sqrt(WO_to_TO_metric), gives
\* WO_to_TO_metric + TO_to_WO_metric, and where WO_to_TO_metric is zero it
\* is the inf or nan that the division of the formula by zero gives.
C13_AsimovSignificance ==
    stats_ran =>
        /\ Len(significances) = Len(WO_to_TO_metrics)
        /\ \A k \in 1..Len(WO_to_TO_metrics) :
               LET WO == WO_to_TO_metrics[k]
                   TO == TO_to_WO_metrics[k]
               IN  /\ IsPos(WO) =>
                          \E root \in Roots :
                              /\ Mul(root, root) = WO
                              /\ Mul(Mul(FromInt(2), root), significances[k]) = Add(WO, TO)
                   /\ WO = Zero => ~IsFinite(significances[k])

C13_Witness ==
    /\ stats_ran
    /\ Len(significances) = 2
    /\ WO_to_TO_metrics[1] = FromInt(4) /\ TO_to_WO_metrics[1] = One
    /\ significances[1] = Frac(5, 4)
    /\ WO_to_TO_metrics[2] # WO_to_TO_metrics[1]


(***************************************************************************)
(* Claims on honda.load_2D_table                                           *)
(***************************************************************************)
\* the key of the coszen value h hundredths, as '%.2f' writes it
KeyOf(h) == IF h < 0 THEN <<"-", -h>> ELSE <<"", h>>

\* the coszen value of the r-th table row, np.linspace(0.95, -0.95, 20)[r - 1],
\* in hundredths
RowCoszen(r) == 95 - 10 * (r - 1)

\* C14: after load_2D_table in integral-preserving mode, for each primary and
\* each of the 20 table rows, the spline stored under the key of the row's
\* coszen value ('0.95' for the first row down to '-0.95' for the last) is of
\* a series with one value per edge of the table's energy bins, starting at 0
\* and rising across each bin by that bin's flux * energy; there are no other
\* keys, and compute_2D_outputs finds a spline for every czkey it looks up:
\* the one of the row with that coszen value.
C14_CumulativeSeriesAndKeys ==
    table_call # "none" =>
        /\ \A p \in Primaries :
               /\ DOMAIN spline_dict[p] = {KeyOf(RowCoszen(r)) : r \in 1..NumCZ}
               /\ \A r \in 1..NumCZ :
                      LET series == spline_dict[p][KeyOf(RowCoszen(r))].y
                          energy == flux_dict["energy"]
                      IN  /\ Len(series) = Len(energy) + 1
                          /\ Len(series) = Len(spline_dict[p][KeyOf(RowCoszen(r))].x)
                          /\ series[1] = Zero
                          /\ \A k \in 1..Len(energy) :
                                 Sub(series[k + 1], series[k])
                                     = Mul(flux_dict[p][r][k], energy[k])
        /\ table_call = "compute_2D_outputs" =>
               /\ ~key_error
               /\ Len(spline_vals_of) = NumCZ
               /\ \A j \in 1..NumCZ :
                      spline_vals_of[j] = spline_dict[prim][KeyOf(-95 + 10 * (j - 1))]

C14_Witness ==
    /\ table_call = "compute_2D_outputs"
    /\ prim = "nuebar"
    /\ Len(flux_dict["energy"]) = 2
    /\ spline_vals_of[1] = spline_dict["nuebar"][<<"-", 95>>]
    /\ spline_dict["nuebar"][<<"", 95>>].y[3] # spline_dict["nuebar"][<<"", 95>>].y[2]
    /\ spline_dict["nuebar"][<<"", 95>>].y # spline_dict["nuebar"][<<"-", 95>>].y


====
